---- MODULE Spec2Model ----
(***************************************************************************)
(* A model of src/kyocera_cli.py: the KyoceraClient session manager, its   *)
(* transport (_request), its session store (_load_session_cache,           *)
(* _persist_session) and the get_status() login-and-retry protocol.        *)
(*                                                                         *)
(* Python values are modelled as follows.  None is the empty sequence <<>> *)
(* where a value is optional (expires), and the string NoToken for the     *)
(* CSRF token.  A float number of seconds is an integer.  An exception is  *)
(* the name of its class, with the cause after a slash where the class is  *)
(* shared ("KyoceraError/network").                                        *)
(***************************************************************************)
EXTENDS Integers, Sequences, FiniteSets, TLC

(***************************************************************************)
(* Program constants.                                                      *)
(***************************************************************************)
SESSION_MAX_AGE == 60 * 30

\* retries: int = 3, the default every caller inside the client relies on
DefaultRetries == 3

(***************************************************************************)
(* Bounds of the model.                                                    *)
(***************************************************************************)
\* the largest retries argument of a direct _request call
MaxRetries == 4
\* the longest cookies list of a cache file
MaxCookies == 3
\* how far the clock gets past the construction of the client, in seconds
ClockSpan == 1
\* the most forms on a login page given to _download_login_form on its own
MaxForms == 3
\* the most fields of a form given to _build_login_payload on its own
MaxFields == 3
\* the most cookies the server has set when the session is persisted and reloaded
MaxJar == 3
\* the watch loop starts no further cycle after this many failed ones in a row
MaxErrors == 2

VARIABLES
  cookie_jar,     \* self.cookie_jar: the cookies, in the jar's iteration order
  csrf_token,     \* self.csrf_token
  signage_ready,  \* self._signage_ready
  disable_cache,  \* self.disable_cache
  cache_file,     \* the content of the file at self.cache_path
  now,            \* time.time(), as last read
  op,             \* the top-level call in progress ("new" before __init__)
  phase,          \* where get_status() is: "first", "login", "retry"
  pc,             \* the HTTP request in flight, or "idle"
  retries,        \* the retries argument of the request in flight
  attempt,        \* the loop variable of _request
  outcomes,       \* how each opener.open() of the request in flight ended
  sleeps,         \* the time.sleep durations of the request in flight
  hdr_csrf,       \* the X-CSRF-Token header of the request in flight
  form,           \* the login form chosen by _download_login_form
  result,         \* how the last top-level call ended
  log,            \* what the current top-level call has done so far
  main            \* the frame of main() in watch mode

vars == <<cookie_jar, csrf_token, signage_ready, disable_cache, cache_file, now,
          op, phase, pc, retries, attempt, outcomes, sleeps, hdr_csrf, form, result,
          log, main>>

NoToken == "None"

\* "if token": neither None nor the empty string
Truthy(token) == token \notin {NoToken, ""}

(***************************************************************************)
(* Cookies.  A jar cookie is an http.cookiejar.Cookie; only the attributes *)
(* the client reads or rebuilds are kept.                                  *)
(***************************************************************************)
Host == "sr.en.kyocera-solar.jp"

\* a cookie as the server sets it: host-only, session-only
ServerCookie(n, v) ==
  [name |-> n, value |-> v, domain |-> Host, path |-> "/", secure |-> TRUE,
   expires |-> <<>>, discard |-> TRUE, domain_specified |-> FALSE,
   domain_initial_dot |-> FALSE, path_specified |-> TRUE]

\* a persistent cookie with an explicit dotted domain
DomainCookie(n, v, e) ==
  [name |-> n, value |-> v, domain |-> ".kyocera-solar.jp", path |-> "/",
   secure |-> FALSE, expires |-> <<e>>, discard |-> FALSE,
   domain_specified |-> TRUE, domain_initial_dot |-> TRUE,
   path_specified |-> TRUE]

\* the cookies of the model
SessionA == ServerCookie("_session", "s1")
SessionB == ServerCookie("_session", "s2")
RememberC == DomainCookie("remember_token", "r1", 9000)

\* c and d agree on the first depth keys of self._cookies[domain][path][name]
SameKey(c, d, depth) ==
  /\ c.domain = d.domain
  /\ depth >= 2 => c.path = d.path
  /\ depth >= 3 => c.name = d.name

\* the last index of jar whose cookie agrees with c to that depth, 0 when none
LastIndex(jar, c, depth) ==
  IF \E i \in 1..Len(jar) : SameKey(c, jar[i], depth)
    THEN CHOOSE i \in 1..Len(jar) :
           /\ SameKey(c, jar[i], depth)
           /\ \A j \in (i+1)..Len(jar) : ~SameKey(c, jar[j], depth)
    ELSE 0

InsertAfter(s, i, c) == SubSeq(s, 1, i) \o <<c>> \o SubSeq(s, i + 1, Len(s))

\* CookieJar.set_cookie: self._cookies[domain][path][name] = cookie, in nested
\* insertion-ordered dicts, which is the order the jar iterates in
SetCookie(jar, c) ==
  IF LastIndex(jar, c, 3) > 0
    THEN [jar EXCEPT ![LastIndex(jar, c, 3)] = c]
  ELSE IF LastIndex(jar, c, 2) > 0
    THEN InsertAfter(jar, LastIndex(jar, c, 2), c)
  ELSE IF LastIndex(jar, c, 1) > 0
    THEN InsertAfter(jar, LastIndex(jar, c, 1), c)
  ELSE Append(jar, c)

(***************************************************************************)
(* The cache file.  state is what open() and json.load() make of it:       *)
(* "missing", "invalid" (empty, not JSON, not UTF-8), "nonobject" (JSON    *)
(* whose top level is no object) or "object".  timestamp and cookies are   *)
(* the values of these keys, tagged with their JSON type.                  *)
(* An entry of the cookies list is a JSON object with the keys in has, or  *)
(* a scalar; bad names the key whose value has a type Cookie() or          *)
(* _cookie_from_dict cannot use ("domain": null, "expires": "soon").       *)
(***************************************************************************)
CookieKeys == {"name", "value", "domain", "path", "secure", "expires", "discard"}

Entry(js, has, c, bad) ==
  [json |-> js, has |-> has, name |-> c.name, value |-> c.value,
   domain |-> c.domain, path |-> c.path, secure |-> c.secure,
   expires |-> c.expires, discard |-> c.discard, bad |-> bad]

\* _cookie_to_dict without its "discard" key
CookieToDictNoDiscard(cookie) == Entry("object", CookieKeys \ {"discard"}, cookie, "none")

\* _cookie_to_dict
CookieToDict(cookie) == Entry("object", CookieKeys, cookie, "none")

StartsWithDot(domain) == domain = ".kyocera-solar.jp"

NullCookie == ServerCookie("", "")

\* _cookie_from_dict: a Cookie, None (no name), or an exception
CookieFromDict(data) ==
  IF data.json # "object"
    THEN [status |-> "raise", cookie |-> NullCookie]   \* data.get: AttributeError
  ELSE IF "name" \notin data.has \/ data.name = ""
    THEN [status |-> "none", cookie |-> NullCookie]
  ELSE IF data.bad \in data.has
    THEN [status |-> "raise", cookie |-> NullCookie]   \* startswith, int(float())
  ELSE
    LET domain == IF "domain" \in data.has THEN data.domain ELSE ""
    IN [status |-> "cookie",
        cookie |-> [name |-> data.name,
                    value |-> IF "value" \in data.has THEN data.value ELSE "",
                    domain |-> domain,
                    path |-> IF "path" \in data.has THEN data.path ELSE "/",
                    secure |-> IF "secure" \in data.has THEN data.secure ELSE FALSE,
                    expires |-> IF "expires" \in data.has THEN data.expires ELSE <<>>,
                    discard |-> IF "discard" \in data.has THEN data.discard ELSE FALSE,
                    domain_specified |-> domain # "",
                    domain_initial_dot |-> StartsWithDot(domain),
                    path_specified |-> TRUE]]

(***************************************************************************)
(* Session store.                                                          *)
(***************************************************************************)
Missing == [type |-> "missing", v |-> 0]
Number(n) == [type |-> "number", v |-> n]
NoList == [type |-> "missing", items |-> <<>>]
List(items) == [type |-> "list", items |-> items]

MissingFile == [state |-> "missing", timestamp |-> Missing, cookies |-> NoList]
InvalidFile == [state |-> "invalid", timestamp |-> Missing, cookies |-> NoList]
NonObjectFile == [state |-> "nonobject", timestamp |-> Missing, cookies |-> NoList]
ObjectFile(ts, cookies) == [state |-> "object", timestamp |-> ts, cookies |-> cookies]

\* time.time() - timestamp > SESSION_MAX_AGE, timestamp = payload.get("timestamp", 0);
\* json.load reads the literal NaN as float('nan'), and every comparison with it is False
Expired(t, timestamp) ==
  CASE timestamp.type = "missing" -> t - 0 > SESSION_MAX_AGE
    [] timestamp.type = "number"  -> t - timestamp.v > SESSION_MAX_AGE
    [] timestamp.type = "nan"     -> FALSE

RECURSIVE LoadCookies(_, _)
\* for cookie_dict in cookies: set_cookie(_cookie_from_dict(cookie_dict)), up to
\* the first entry that raises
LoadCookies(items, jar) ==
  IF items = <<>> THEN [jar |-> jar, raised |-> FALSE]
  ELSE LET r == CookieFromDict(Head(items))
       IN  IF r.status = "raise" THEN [jar |-> jar, raised |-> TRUE]
           ELSE LoadCookies(Tail(items),
                            IF r.status = "cookie" THEN SetCookie(jar, r.cookie) ELSE jar)

\* the body of the try statement of _load_session_cache
LoadTry(file, t, jar) ==
  IF file.state = "invalid" THEN [jar |-> jar, raised |-> TRUE]         \* open, json.load
  ELSE IF file.state = "nonobject" THEN [jar |-> jar, raised |-> TRUE]  \* payload.get
  ELSE IF file.timestamp.type = "other" THEN [jar |-> jar, raised |-> TRUE]  \* TypeError
  ELSE IF Expired(t, file.timestamp) THEN [jar |-> jar, raised |-> FALSE]
  ELSE IF file.cookies.type = "missing" THEN [jar |-> jar, raised |-> FALSE]
  ELSE IF file.cookies.type = "other" THEN [jar |-> jar, raised |-> TRUE]    \* not iterable
  ELSE LoadCookies(file.cookies.items, jar)

\* _load_session_cache without its except clause
LoadSessionCacheNoExcept(file, t, jar) ==
  IF file.state = "missing" THEN [jar |-> jar, escaped |-> FALSE]
  ELSE [jar |-> LoadTry(file, t, jar).jar, escaped |-> LoadTry(file, t, jar).raised]

\* _load_session_cache: except Exception swallows whatever the body raises
LoadSessionCache(file, t, jar) ==
  IF file.state = "missing" THEN [jar |-> jar, escaped |-> FALSE]
  ELSE [jar |-> LoadTry(file, t, jar).jar, escaped |-> FALSE]

\* __init__: an empty CookieJar, no token, not primed, then the cache
ClientInit(file, t, disabled) ==
  IF disabled THEN [jar |-> <<>>, escaped |-> FALSE]
  ELSE LoadSessionCache(file, t, <<>>)

\* [_cookie_to_dict(cookie) for cookie in self.cookie_jar]
CookiesToDicts(jar) == [i \in 1..Len(jar) |-> CookieToDict(jar[i])]

\* _persist_session without its look at disable_cache
PersistSessionAlways(file, t, jar, disabled, fs) ==
  IF fs # "ok" THEN [file |-> file, raised |-> TRUE]
  ELSE [file |-> ObjectFile(Number(t), List(CookiesToDicts(jar))), raised |-> FALSE]

\* _persist_session: fs is whether mkdir and open("w") succeed
PersistSession(file, t, jar, disabled, fs) ==
  IF disabled THEN [file |-> file, raised |-> FALSE]
  ELSE IF fs # "ok" THEN [file |-> file, raised |-> TRUE]         \* OSError
  ELSE [file |-> ObjectFile(Number(t), List(CookiesToDicts(jar))), raised |-> FALSE]

(***************************************************************************)
(* Response bodies.  A body is kept as what the client can tell about it:  *)
(* lead is its leading whitespace, doc what follows: "html" (starts with   *)
(* "<"), "text" (neither HTML nor JSON), "json_list", or a JSON object:    *)
(* "json_error" {"result": "error"}, "json_ok" {"result": "ok", "data": D} *)
(* and "json_nodata" {"result": "ok"}.  meta is how a csrf-token meta tag  *)
(* is written: "canonical" <meta name="csrf-token" content="T">,           *)
(* "reordered" <meta content="T" name="csrf-token">, or "none".  marker is *)
(* the login-failure text the body contains.  forms are its <form>s.       *)
(***************************************************************************)
Body(lead, doc, meta, token, forms, marker, data) ==
  [lead |-> lead, doc |-> doc, meta |-> meta, token |-> token, forms |-> forms,
   marker |-> marker, data |-> data]

Plain(text) == Body("", "text", "none", NoToken, <<>>, "", text)
Json(lead, doc, data) == Body(lead, doc, "none", NoToken, <<>>, "", data)
Html(lead, meta, token, forms, marker) == Body(lead, "html", meta, token, forms, marker, "")

NoBody == Plain("")

\* a <form> as LoginFormParser records it: method lower-cased ("get" when the
\* attribute is missing), action ("" when missing), the named inputs in order
Form(method, action, fields) == [method |-> method, action |-> action, fields |-> fields]
Field(name, value) == [name |-> name, value |-> value]

NoForm == Form("", "", <<>>)

\* what _download_login_form returns: {"action": ..., "fields": ...}
LoginForm(action, fields) == [action |-> action, fields |-> fields]
NoLoginForm == LoginForm("", <<>>)

SearchForm == Form("get", "/search", <<Field("q", "")>>)
SignInForm ==
  Form("post", "/users/sign_in",
       <<Field("authenticity_token", "x1"), Field("user[email]", ""),
         Field("user[password]", ""), Field("user[remember_me]", "0")>>)
LocaleForm == Form("post", "", <<Field("locale", "ja")>>)

Codes == {401, 403, 500}
SetCookies == {<<>>, <<SessionA>>, <<SessionB>>}
ErrorBody == Plain("denied")

\* what one "with self.opener.open(req, timeout=30)" block can end in: a response
\* that is read ("ok"), an HTTPError ("http"), a URLError ("urlerror"), or an
\* exception of neither class ("other": a timeout while the body is read)
Ok(body, cookie) == [kind |-> "ok", code |-> 200, body |-> body, cookie |-> cookie]
HttpError(code, body, cookie) == [kind |-> "http", code |-> code, body |-> body, cookie |-> cookie]
UrlError == [kind |-> "urlerror", code |-> 0, body |-> NoBody, cookie |-> <<>>]

ReadTimeout == [kind |-> "other", code |-> 0, body |-> NoBody, cookie |-> <<>>]

Failures(bodies) ==
  {UrlError, ReadTimeout} \cup {HttpError(c, b, k) : c \in Codes, b \in bodies, k \in SetCookies}

\* HTTPCookieProcessor: the cookies of every response, error responses too, go
\* into the jar
Absorb(jar, resp) == IF resp.cookie = <<>> THEN jar ELSE SetCookie(jar, resp.cookie[1])

(***************************************************************************)
(* Results and exceptions.                                                 *)
(***************************************************************************)
NoResult == [kind |-> "none", value |-> "", error |-> "", code |-> 0, body |-> NoBody]
Constructed == [NoResult EXCEPT !.kind = "constructed"]
Returned(v) == [NoResult EXCEPT !.kind = "returned", !.value = v]
ReturnedBody(b) == [NoResult EXCEPT !.kind = "returned", !.body = b]
Raised(e) == [NoResult EXCEPT !.kind = "raised", !.error = e]
\* KyoceraHTTPError(status_code, body)
RaisedHTTP(code, b) == [Raised("KyoceraHTTPError") EXCEPT !.code = code, !.body = b]

(***************************************************************************)
(* Transport.                                                              *)
(***************************************************************************)
\* 2 ** attempt taken for a linear backoff
Pow2Linear(n) == n + 1

\* 2 ** attempt
Pow2(n) == 2 ^ n

\* "attempt < retries" for "attempt < retries - 1": one attempt too many
RequestAttemptOneMore(n, att, resp) ==
  IF resp.kind = "ok"
    THEN [status |-> "return", exc |-> NoResult, body |-> resp.body, wait |-> 0]
  ELSE IF resp.kind = "http"
    THEN [status |-> "raise", exc |-> RaisedHTTP(resp.code, resp.body),
          body |-> NoBody, wait |-> 0]
  ELSE IF resp.kind = "other"
    THEN [status |-> "raise", exc |-> Raised("TimeoutError"), body |-> NoBody, wait |-> 0]
  ELSE IF att < n
    THEN [status |-> "retry", exc |-> NoResult, body |-> NoBody, wait |-> Pow2(att)]
  ELSE [status |-> "raise", exc |-> Raised("KyoceraError/network"),
        body |-> NoBody, wait |-> 0]

\* an HTTPError handled like a URLError
RequestAttemptRetryHttp(n, att, resp) ==
  IF resp.kind = "ok"
    THEN [status |-> "return", exc |-> NoResult, body |-> resp.body, wait |-> 0]
  ELSE IF resp.kind = "other"
    THEN [status |-> "raise", exc |-> Raised("TimeoutError"), body |-> NoBody, wait |-> 0]
  ELSE IF att < n - 1
    THEN [status |-> "retry", exc |-> NoResult, body |-> NoBody, wait |-> Pow2(att)]
  ELSE IF resp.kind = "http"
    THEN [status |-> "raise", exc |-> RaisedHTTP(resp.code, resp.body),
          body |-> NoBody, wait |-> 0]
  ELSE [status |-> "raise", exc |-> Raised("KyoceraError/network"),
        body |-> NoBody, wait |-> 0]

\* one iteration of "for attempt in range(retries)" with the outcome resp of
\* opener.open(): the request returns, raises, or sleeps and goes on
RequestAttempt(n, att, resp) ==
  IF resp.kind = "ok"
    THEN [status |-> "return", exc |-> NoResult, body |-> resp.body, wait |-> 0]
  ELSE IF resp.kind = "http"
    THEN [status |-> "raise", exc |-> RaisedHTTP(resp.code, resp.body),
          body |-> NoBody, wait |-> 0]
  ELSE IF resp.kind = "other"      \* no except clause matches
    THEN [status |-> "raise", exc |-> Raised("TimeoutError"), body |-> NoBody, wait |-> 0]
  ELSE IF att < n - 1
    THEN [status |-> "retry", exc |-> NoResult, body |-> NoBody, wait |-> Pow2(att)]
  ELSE [status |-> "raise", exc |-> Raised("KyoceraError/network"),
        body |-> NoBody, wait |-> 0]

(***************************************************************************)
(* The state as one record, so that the methods compose as operators.      *)
(***************************************************************************)
State ==
  [cookie_jar |-> cookie_jar, csrf_token |-> csrf_token,
   signage_ready |-> signage_ready, disable_cache |-> disable_cache,
   cache_file |-> cache_file, now |-> now, op |-> op, phase |-> phase, pc |-> pc,
   retries |-> retries, attempt |-> attempt, outcomes |-> outcomes,
   sleeps |-> sleeps,
   hdr_csrf |-> hdr_csrf, form |-> form, result |-> result, log |-> log,
   main |-> main]

Become(s) ==
  /\ cookie_jar' = s.cookie_jar /\ csrf_token' = s.csrf_token
  /\ signage_ready' = s.signage_ready /\ disable_cache' = s.disable_cache
  /\ cache_file' = s.cache_file /\ now' = s.now /\ op' = s.op
  /\ phase' = s.phase /\ pc' = s.pc /\ retries' = s.retries
  /\ attempt' = s.attempt /\ outcomes' = s.outcomes /\ sleeps' = s.sleeps
  /\ hdr_csrf' = s.hdr_csrf /\ form' = s.form /\ result' = s.result
  /\ log' = s.log /\ main' = s.main

Event(ev, fn, x) == [ev |-> ev, fn |-> fn, x |-> x]
Logged(s, ev, fn, x) == [s EXCEPT !.log = Append(@, Event(ev, fn, x))]

\* a top-level call begins: the log is the log of this call
Called(s, fn) ==
  [s EXCEPT !.op = fn, !.result = NoResult, !.log = <<Event("call", fn, "")>>]

\* the top-level call ends, with the locals of its last _request as they were
Ended(s, res) ==
  [Logged(s, res.kind, s.op, res.error) EXCEPT
     !.op = "none", !.phase = "none", !.pc = "idle", !.result = res]

\* a call of the session manager ends: of its locals the model keeps the
\* retries of its last _request and how the attempts of that request ended
Finish(s, res) ==
  [Ended(s, res) EXCEPT
     !.attempt = 0, !.sleeps = <<>>, !.hdr_csrf = NoToken, !.form = NoLoginForm]

\* _request is entered: the headers are built, the loop starts
BeginRequest(s, endpoint, hdr, n) ==
  [Logged(s, "request", endpoint, hdr) EXCEPT
     !.pc = endpoint, !.retries = n, !.attempt = 0, !.outcomes = <<>>,
     !.sleeps = <<>>, !.hdr_csrf = hdr]

\* opener.open() has answered resp
Attempted(s, resp) ==
  [s EXCEPT !.outcomes = Append(@, [kind |-> resp.kind, code |-> resp.code,
                                     body |-> resp.body]),
            !.cookie_jar = Absorb(@, resp)]

\* time.sleep(wait_time); continue
Slept(s, wait) == [s EXCEPT !.attempt = @ + 1, !.sleeps = Append(@, wait)]

\* main() is not in its watch loop: at is where it is ("off", "top" of the
\* loop, in the "cycle", "stopped" by Ctrl+C, or left by an "uncaught"
\* exception), interval args.interval, waited the last time.sleep of the loop,
\* printed what the last cycle showed
NoMain == [at |-> "off", interval |-> 0, error_count |-> 0, waited |-> 0, printed |-> "none"]

\* no call in progress
Quiet ==
  /\ phase = "none" /\ pc = "idle" /\ retries = 0 /\ attempt = 0 /\ outcomes = <<>>
  /\ sleeps = <<>> /\ hdr_csrf = NoToken /\ form = NoLoginForm /\ log = <<>>
  /\ main = NoMain

(***************************************************************************)
(* Login-form locator.                                                     *)
(***************************************************************************)
\* parser.csrf_token: HTMLParser reads the meta tag in either attribute order,
\* and an empty content attribute as ""
ParserCsrf(body) ==
  IF body.doc = "html" /\ body.meta # "none" THEN body.token ELSE NoToken

\* _update_csrf_from_html assigning the token of the page, or None without one
UpdateCsrfFromHtmlOrNone(token, body) ==
  IF body.doc = "html" /\ body.meta = "canonical" /\ body.token # ""
    THEN body.token ELSE NoToken

\* _update_csrf_from_html: the regular expression wants name before content,
\* and content="([^"]+)" a content that is not empty
UpdateCsrfFromHtml(token, body) ==
  IF body.doc = "html" /\ body.meta = "canonical" /\ body.token # ""
    THEN body.token ELSE token

\* str.lower(), over the names of the model
Lower(name) ==
  CASE name = "Email" -> "email"
    [] name = "Remember" -> "remember"
    [] name = "Login[Password]" -> "login[password]"
    [] OTHER -> name

\* "part in text", over the lower-case names of the model and the parts the
\* client looks for
Contains(text, part) ==
  part \in CASE text \in {"email", "user[email]"} -> {"email"}
             [] text = "login_id" -> {"login"}
             [] text = "login[email]" -> {"login", "email"}
             [] text \in {"password", "user[password]"} -> {"password"}
             [] text = "login[password]" -> {"login", "password"}
             [] text \in {"user[remember_me]", "remember"} -> {"remember"}
             [] text = "remember_email" -> {"remember", "email"}
             [] OTHER -> {}

\* "email" in key.lower() or "login" in key.lower()
EmailLike(name) == Contains(Lower(name), "email") \/ Contains(Lower(name), "login")

RECURSIVE ChooseFormFirstPost(_, _)
\* the loop without its test for an email-like field: the first POST form
ChooseFormFirstPost(forms, chosen_form) ==
  IF forms = <<>> THEN chosen_form
  ELSE IF Head(forms).method = "post" THEN Head(forms)
  ELSE ChooseFormFirstPost(Tail(forms), chosen_form)

RECURSIVE ChooseForm(_, _)
\* the loop of _download_login_form over parser.forms: the form it returns
\* from inside the loop, else chosen_form (NoForm while it is None)
ChooseForm(forms, chosen_form) ==
  IF forms = <<>> THEN chosen_form
  ELSE LET f == Head(forms)
       IN  IF f.method # "post" THEN ChooseForm(Tail(forms), chosen_form)
           ELSE IF \E i \in 1..Len(f.fields) : EmailLike(f.fields[i].name) THEN f
           ELSE ChooseForm(Tail(forms), IF chosen_form = NoForm THEN f ELSE chosen_form)

(***************************************************************************)
(* Login payload.  A dict is the sequence of its items in insertion order. *)
(***************************************************************************)
\* self.config.email, self.config.password
ConfigEmail == "me@example.com"
ConfigPassword == "secret"

\* the position of key name in payload, 0 when it is not a key
IndexOf(payload, name) ==
  IF \E i \in 1..Len(payload) : payload[i].name = name
    THEN CHOOSE i \in 1..Len(payload) : payload[i].name = name
    ELSE 0

\* payload[name] = value
Put(payload, name, value) ==
  IF IndexOf(payload, name) > 0
    THEN [payload EXCEPT ![IndexOf(payload, name)].value = value]
    ELSE Append(payload, Field(name, value))

\* any(match in name.lower() for match in matches)
Matches(name, matches) == \E m \in matches : Contains(Lower(name), m)

\* _field(matches, fallback): the first key that matches, else the fallback,
\* which is added to the payload with an empty value
FieldFor(payload, matches, fallback) ==
  IF \E i \in 1..Len(payload) : Matches(payload[i].name, matches)
    THEN [name |-> payload[CHOOSE i \in 1..Len(payload) :
                             /\ Matches(payload[i].name, matches)
                             /\ \A j \in 1..(i - 1) : ~Matches(payload[j].name, matches)].name,
          payload |-> payload]
    ELSE [name |-> fallback, payload |-> Put(payload, fallback, "")]

\* payload[remember_field] = "1"
RememberedAlways(payload) ==
  LET r == FieldFor(payload, {"remember"}, "")
  IN  IF r.name = "" THEN payload ELSE Put(payload, r.name, "1")

\* payload[remember_field] = payload.get(remember_field) or "1"
Remembered(payload) ==
  LET r == FieldFor(payload, {"remember"}, "")
  IN  IF r.name = "" THEN payload
      ELSE IF payload[IndexOf(payload, r.name)].value = "" THEN Put(payload, r.name, "1")
      ELSE payload

\* _build_login_payload(fields)
BuildLoginPayload(fields) ==
  LET e  == FieldFor(fields, {"email", "login"}, "user[email]")
      pw == FieldFor(e.payload, {"password"}, "user[password]")
  IN  Remembered(Put(Put(pw.payload, e.name, ConfigEmail), pw.name, ConfigPassword))

\* payload = fields: the dict of the caller written to
BuildLoginPayloadInPlace(fields) ==
  [fields |-> BuildLoginPayload(fields), payload |-> BuildLoginPayload(fields)]

\* payload = dict(fields): the call leaves the dict of the caller as it is and
\* returns the payload
BuildLoginPayloadRun(fields) ==
  [fields |-> fields, payload |-> BuildLoginPayload(fields)]

\* form.get("action") or "/users/sign_in"
ActionOf(f) == IF f.action = "" THEN "/users/sign_in" ELSE f.action

(***************************************************************************)
(* Session manager.  Each operator is the code that runs between two       *)
(* network calls; env is what _persist_session meets when it runs.         *)
(***************************************************************************)
\* the X-CSRF-Token header: set "if self.csrf_token", "if csrf_token"
Header(token) == IF Truthy(token) THEN token ELSE NoToken

\* the file system lets _persist_session write ("ok") or not, and the clock
\* reads t when it does
Env(fs, t) == [fs |-> fs, t |-> t]

\* self._persist_session()
Persisted(s, env) ==
  LET p == PersistSession(s.cache_file, env.t, s.cookie_jar, s.disable_cache, env.fs)
  IN  [Logged(s, "persist", "_persist_session",
              IF s.disable_cache THEN "skipped"
              ELSE IF p.raised THEN "OSError" ELSE "written")
       EXCEPT !.cache_file = p.file,
              !.now = IF s.disable_cache \/ p.raised THEN @ ELSE env.t]

PersistRaises(s, env) ==
  PersistSession(s.cache_file, env.t, s.cookie_jar, s.disable_cache, env.fs).raised

\* fetch_realtime, from the request of the realtime endpoint on
RealtimeBegin(s) == BeginRequest(s, "realtime", Header(s.csrf_token), DefaultRetries)

\* fetch_realtime is entered: _ensure_signage_ready returns at once when the
\* client is primed, and requests the signage page otherwise
FetchBegin(s) ==
  LET s1 == Logged(s, "call", "fetch_realtime", "")
  IN  IF s1.signage_ready THEN RealtimeBegin(s1)
      ELSE BeginRequest(s1, "signage", NoToken, DefaultRetries)

\* login is entered: _download_login_form requests the login page
LoginBegin(s) ==
  BeginRequest(Logged(s, "call", "login", ""), "login_page", NoToken, DefaultRetries)

\* get_status catching KyoceraAuthRequired around its second fetch too
FetchRaisedAgain(s, exc) ==
  LET s1 == Logged(s, "raise", "fetch_realtime", exc.error)
  IN  IF s.op = "get_status" /\ exc.error = "KyoceraAuthRequired"
        THEN LoginBegin([s1 EXCEPT !.phase = "login"])
        ELSE Finish(s1, exc)

\* get_status without its except clause
FetchRaisedNoCatch(s, exc) == Finish(Logged(s, "raise", "fetch_realtime", exc.error), exc)

\* get_status with "except KyoceraError"
FetchRaisedCatchAll(s, exc) ==
  LET s1 == Logged(s, "raise", "fetch_realtime", exc.error)
  IN  IF s.op = "get_status" /\ s.phase = "first"
         /\ exc.error \in {"KyoceraAuthRequired", "KyoceraHTTPError",
                          "KyoceraError/network", "KyoceraError/parse",
                          "KyoceraError/result"}
        THEN LoginBegin([s1 EXCEPT !.phase = "login"])
        ELSE Finish(s1, exc)

\* fetch_realtime raises exc: get_status catches KyoceraAuthRequired around its
\* first fetch and logs in; anything else leaves the top-level call
FetchRaised(s, exc) ==
  LET s1 == Logged(s, "raise", "fetch_realtime", exc.error)
  IN  IF s.op = "get_status" /\ s.phase = "first" /\ exc.error = "KyoceraAuthRequired"
        THEN LoginBegin([s1 EXCEPT !.phase = "login"])
        ELSE Finish(s1, exc)

\* fetch_realtime returns data: get_status returns it, after _persist_session
\* when this was the fetch that follows the login
FetchReturned(s, data, env) ==
  LET s1 == Logged(s, "return", "fetch_realtime", "")
  IN  IF s.op = "get_status" /\ s.phase = "retry"
        THEN IF PersistRaises(s1, env) THEN Finish(Persisted(s1, env), Raised("OSError"))
             ELSE Finish(Persisted(s1, env), Returned(data))
        ELSE Finish(s1, Returned(data))

\* login raises exc: nothing catches it
LoginRaised(s, exc) == Finish(Logged(s, "raise", "login", exc.error), exc)

\* login returns: get_status goes on with its second fetch_realtime
LoginReturned(s) ==
  LET s1 == Logged(s, "return", "login", "")
  IN  IF s.op = "get_status" THEN FetchBegin([s1 EXCEPT !.phase = "retry"])
      ELSE Finish(s1, Returned(""))

\* except KyoceraHTTPError: 401 and 403 become KyoceraAuthRequired
AuthMapped(exc) ==
  IF exc.error = "KyoceraHTTPError" /\ exc.code \in {401, 403}
    THEN Raised("KyoceraAuthRequired") ELSE exc

\* _ensure_signage_ready marking the client primed before its request
SignageDoneFlagFirst(s, r) ==
  IF r.status = "raise"
    THEN FetchRaised([s EXCEPT !.signage_ready = TRUE], AuthMapped(r.exc))
  ELSE RealtimeBegin([s EXCEPT !.csrf_token = UpdateCsrfFromHtml(@, r.body),
                               !.signage_ready = TRUE])

\* _ensure_signage_ready after its request ended as r
SignageDone(s, r) ==
  IF r.status = "raise" THEN FetchRaised(s, AuthMapped(r.exc))
  ELSE RealtimeBegin([s EXCEPT !.csrf_token = UpdateCsrfFromHtml(@, r.body),
                               !.signage_ready = TRUE])

\* str.lstrip(): the leading whitespace is gone
Lstrip(body) == [body EXCEPT !.lead = ""]

\* str.startswith("<")
StartsWithLt(body) == body.lead = "" /\ body.doc = "html"

\* response_text.startswith("<"): the check without lstrip()
LooksLikeHtmlNoStrip(body) == StartsWithLt(body)

\* response_text.lstrip().startswith("<")
LooksLikeHtml(body) == StartsWithLt(Lstrip(body))

\* fetch_realtime without its check of data.get("result")
RealtimeDoneNoResultCheck(s, r, env) ==
  IF r.status = "raise" THEN FetchRaised(s, AuthMapped(r.exc))
  ELSE IF LooksLikeHtml(r.body) THEN FetchRaised(s, Raised("KyoceraAuthRequired"))
  ELSE IF r.body.doc \in {"text", "html"}
    THEN FetchRaised(s, Raised("KyoceraError/parse"))
  ELSE IF r.body.doc = "json_list" THEN FetchRaised(s, Raised("AttributeError"))
  ELSE IF r.body.doc = "json_nodata" THEN FetchRaised(s, Raised("KeyError"))
  ELSE FetchReturned(s, r.body.data, env)

\* fetch_realtime after its request ended as r
RealtimeDone(s, r, env) ==
  IF r.status = "raise" THEN FetchRaised(s, AuthMapped(r.exc))
  ELSE IF LooksLikeHtml(r.body) THEN FetchRaised(s, Raised("KyoceraAuthRequired"))
  ELSE IF r.body.doc \in {"text", "html"}      \* json.loads: JSONDecodeError
    THEN FetchRaised(s, Raised("KyoceraError/parse"))
  ELSE IF r.body.doc = "json_list" THEN FetchRaised(s, Raised("AttributeError"))
  ELSE IF r.body.doc = "json_error" THEN FetchRaised(s, Raised("KyoceraError/result"))
  ELSE IF r.body.doc = "json_nodata" THEN FetchRaised(s, Raised("KeyError"))
  ELSE FetchReturned(s, r.body.data, env)

\* _download_login_form making up the default form where the page has none
DownloadLoginFormDefault(s, r) ==
  IF r.status = "raise"
    THEN [status |-> "raise", s |-> s, exc |-> r.exc, form |-> NoLoginForm,
          token |-> NoToken]
  ELSE
    LET token == ParserCsrf(r.body)
        s1 == [s EXCEPT !.csrf_token = IF Truthy(token) THEN token ELSE @]
        f  == ChooseForm(IF r.body.doc = "html" THEN r.body.forms ELSE <<>>, NoForm)
    IN  [status |-> "return", s |-> s1, exc |-> NoResult,
         form |-> LoginForm(ActionOf(f), f.fields), token |-> token]

\* _download_login_form after its request ended as r: it raises exc, or
\* returns form and token; s is the client as it leaves it
DownloadLoginForm(s, r) ==
  IF r.status = "raise"
    THEN [status |-> "raise", s |-> s, exc |-> r.exc, form |-> NoLoginForm,
          token |-> NoToken]
  ELSE
    LET token == ParserCsrf(r.body)
        s1 == [s EXCEPT !.csrf_token = IF Truthy(token) THEN token ELSE @]
        f  == ChooseForm(IF r.body.doc = "html" THEN r.body.forms ELSE <<>>, NoForm)
    IN  IF f = NoForm
          THEN [status |-> "raise", s |-> s1, exc |-> Raised("KyoceraLoginError/form"),
                form |-> NoLoginForm, token |-> token]
          ELSE [status |-> "return", s |-> s1, exc |-> NoResult,
                form |-> LoginForm(ActionOf(f), f.fields), token |-> token]

\* login from the return of _download_login_form up to its POST
LoginPageDone(s, r) ==
  LET d == DownloadLoginForm(s, r)
  IN  IF d.status = "raise" THEN LoginRaised(d.s, d.exc)
      ELSE BeginRequest([d.s EXCEPT !.form = d.form],
                        "login_post", Header(d.token), DefaultRetries)

\* login resetting the primed flag before it looks for the failure markers
LoginPostDoneResetFirst(s, r, env) ==
  IF r.status = "raise" THEN LoginRaised(s, r.exc)
  ELSE IF r.body.marker # ""
    THEN LoginRaised([s EXCEPT !.signage_ready = FALSE], Raised("KyoceraLoginError/invalid"))
  ELSE
    LET s1 == [s EXCEPT !.csrf_token = UpdateCsrfFromHtml(@, r.body),
                        !.signage_ready = FALSE]
    IN  IF PersistRaises(s1, env) THEN LoginRaised(Persisted(s1, env), Raised("OSError"))
        ELSE LoginReturned(Persisted(s1, env))

\* login looking for "Invalid" only
LoginPostDoneOneMarker(s, r, env) ==
  IF r.status = "raise" THEN LoginRaised(s, r.exc)
  ELSE IF r.body.marker = "Invalid" THEN LoginRaised(s, Raised("KyoceraLoginError/invalid"))
  ELSE
    LET s1 == [s EXCEPT !.csrf_token = UpdateCsrfFromHtml(@, r.body),
                        !.signage_ready = FALSE]
    IN  IF PersistRaises(s1, env) THEN LoginRaised(Persisted(s1, env), Raised("OSError"))
        ELSE LoginReturned(Persisted(s1, env))

\* login leaving the primed flag as it is
LoginPostDoneKeepFlag(s, r, env) ==
  IF r.status = "raise" THEN LoginRaised(s, r.exc)
  ELSE IF r.body.marker # "" THEN LoginRaised(s, Raised("KyoceraLoginError/invalid"))
  ELSE
    LET s1 == [s EXCEPT !.csrf_token = UpdateCsrfFromHtml(@, r.body)]
    IN  IF PersistRaises(s1, env) THEN LoginRaised(Persisted(s1, env), Raised("OSError"))
        ELSE LoginReturned(Persisted(s1, env))

\* login after its POST ended as r
LoginPostDone(s, r, env) ==
  IF r.status = "raise" THEN LoginRaised(s, r.exc)
  ELSE IF r.body.marker # "" THEN LoginRaised(s, Raised("KyoceraLoginError/invalid"))
  ELSE
    LET s1 == [s EXCEPT !.csrf_token = UpdateCsrfFromHtml(@, r.body),
                        !.signage_ready = FALSE]
    IN  IF PersistRaises(s1, env) THEN LoginRaised(Persisted(s1, env), Raised("OSError"))
        ELSE LoginReturned(Persisted(s1, env))

(***************************************************************************)
(* Construction of a client over an arbitrary cache file.                  *)
(***************************************************************************)
\* the entries a cookies list is drawn from: three well-formed ones, one with
\* only a name, one without a name, and three malformed ones
SampleEntries ==
  { CookieToDict(SessionA), CookieToDict(SessionB), CookieToDict(RememberC),
    Entry("object", {"name"}, ServerCookie("bare", ""), "none"),
    Entry("object", {"value", "domain", "path"}, ServerCookie("", "v"), "none"),
    Entry("scalar", {}, NullCookie, "none"),
    Entry("object", CookieKeys, ServerCookie("nodomain", "v"), "domain"),
    Entry("object", CookieKeys, ServerCookie("soon", "v"), "expires") }

RECURSIVE SeqsUpTo(_, _)
SeqsUpTo(S, n) ==
  IF n = 0 THEN {<<>>}
  ELSE SeqsUpTo(S, n - 1) \cup
       {Append(q, x) : q \in {r \in SeqsUpTo(S, n - 1) : Len(r) = n - 1}, x \in S}

\* the clock readings and the timestamps around the max-age boundary
Clocks == {SESSION_MAX_AGE, SESSION_MAX_AGE + 1, 5000}
Timestamps ==
  {Missing, [type |-> "other", v |-> 0], [type |-> "nan", v |-> 0]} \cup
  {Number(n) : n \in {0, 1, 5000 - SESSION_MAX_AGE - 1, 5000 - SESSION_MAX_AGE,
                      5000 - 1, 5000, 5000 + 60}}

CacheFiles ==
  {MissingFile, InvalidFile, NonObjectFile} \cup
  {ObjectFile(ts, c) : ts \in Timestamps,
                       c \in {NoList, [type |-> "other", items |-> <<>>]} \cup
                             {List(q) : q \in SeqsUpTo(SampleEntries, MaxCookies)}}

InitLoad ==
  /\ cache_file \in CacheFiles
  /\ now \in Clocks
  /\ disable_cache \in BOOLEAN
  /\ cookie_jar = <<>>
  /\ csrf_token = NoToken
  /\ signage_ready = FALSE
  /\ op = "new"
  /\ result = NoResult
  /\ Quiet

\* KyoceraClient(config, cache_path, disable_cache)
Construct ==
  /\ op = "new"
  /\ LET c == ClientInit(cache_file, now, disable_cache)
     IN  /\ cookie_jar' = c.jar
         /\ result' = IF c.escaped THEN Raised("Exception") ELSE Constructed
  /\ op' = "none"
  /\ UNCHANGED <<csrf_token, signage_ready, disable_cache, cache_file, now, phase,
                 pc, retries, attempt, outcomes, sleeps, hdr_csrf, form, log, main>>

NextLoad == Construct

SpecLoad == InitLoad /\ [][NextLoad]_vars

(***************************************************************************)
(* The responses the model has the server give at each endpoint.           *)
(***************************************************************************)
SignageBodies ==
  { Html("", "none", NoToken, <<>>, ""),
    Html("", "canonical", "tokA", <<>>, ""),
    Html("", "canonical", "tokB", <<>>, ""),
    Html("", "reordered", "tokB", <<>>, ""),
    Html("", "canonical", "", <<>>, "") }

RealtimeBodies ==
  { Html(l, "none", NoToken, <<SignInForm>>, "") : l \in {"", " "} } \cup
  { Json("", d, "") : d \in {"json_list", "json_error", "json_nodata"} } \cup
  { Json("", "json_ok", "status1"), Json(" ", "json_ok", "status1"),
    Json("", "json_ok", "status2") } \cup
  { Plain("oops"), Plain("") }

LoginPageBodies ==
  { Html("", m[1], m[2], fs, "") :
      m \in {<<"none", NoToken>>, <<"canonical", "tokA">>, <<"reordered", "tokB">>,
             <<"reordered", "">>},
      fs \in {<<>>, <<SearchForm>>, <<SearchForm, SignInForm>>,
              <<LocaleForm, SignInForm>>, <<LocaleForm>>} } \cup
  { Json("", "json_error", "") }

LoginPostBodies ==
  { Html("", m[1], m[2], <<>>, k) :
      m \in {<<"none", NoToken>>, <<"canonical", "tokB">>},
      k \in {"", "Invalid", "error_explanation"} } \cup
  { Json("", "json_ok", "welcome") }

DirectBodies == {Plain("pong"), Json("", "json_ok", "status1")}

Responses(bodies) == Failures({ErrorBody}) \cup {Ok(b, k) : b \in bodies, k \in SetCookies}

\* for a direct request the error body varies too
DirectResponses ==
  Failures({ErrorBody} \cup DirectBodies) \cup {Ok(b, k) : b \in DirectBodies, k \in SetCookies}

(***************************************************************************)
(* The actions: the top-level calls, and one attempt of the request in     *)
(* flight together with the code that runs up to the next network call.    *)
(***************************************************************************)
CanCall == op = "none"

\* what _persist_session can meet; the clock never runs backwards.  Where the
\* code cannot reach _persist_session one environment stands for all.
Envs(reachable) ==
  IF reachable
    THEN {Env(fs, t) : fs \in {"ok", "fail"}, t \in {u \in 5000..(5000 + ClockSpan) : u >= now}}
    ELSE {Env("ok", now)}

\* client.get_status()
GetStatus ==
  /\ CanCall
  /\ Become(FetchBegin([Called(State, "get_status") EXCEPT !.phase = "first"]))

\* client.login()
Login ==
  /\ CanCall
  /\ Become(LoginBegin(Called(State, "login")))

\* client.fetch_realtime()
FetchRealtime ==
  /\ CanCall
  /\ Become(FetchBegin(Called(State, "fetch_realtime")))

\* client._request(method, url, retries=n); range(n) is empty for n = 0
DirectRequest ==
  /\ CanCall
  /\ \E n \in 0..MaxRetries :
       LET s == BeginRequest(Called(State, "_request"), "direct", NoToken, n)
       IN  Become(IF n = 0 THEN Ended(s, Raised("KyoceraError/failed")) ELSE s)

DirectAttempt ==
  /\ pc = "direct"
  /\ \E resp \in DirectResponses :
       LET s == Attempted(State, resp)
           r == RequestAttempt(retries, attempt, resp)
       IN  Become(IF r.status = "retry" THEN Slept(s, r.wait)
                  ELSE IF r.status = "return" THEN Ended(s, ReturnedBody(r.body))
                  ELSE Ended(s, r.exc))

SignageAttempt ==
  /\ pc = "signage"
  /\ \E resp \in Responses(SignageBodies) :
       LET s == Attempted(State, resp)
           r == RequestAttempt(retries, attempt, resp)
       IN  Become(IF r.status = "retry" THEN Slept(s, r.wait) ELSE SignageDone(s, r))

RealtimeAttempt ==
  /\ pc = "realtime"
  /\ \E resp \in Responses(RealtimeBodies),
        env \in Envs(op = "get_status" /\ phase = "retry") :
       LET s == Attempted(State, resp)
           r == RequestAttempt(retries, attempt, resp)
       IN  Become(IF r.status = "retry" THEN Slept(s, r.wait) ELSE RealtimeDone(s, r, env))

LoginPageAttempt ==
  /\ pc = "login_page"
  /\ \E resp \in Responses(LoginPageBodies) :
       LET s == Attempted(State, resp)
           r == RequestAttempt(retries, attempt, resp)
       IN  Become(IF r.status = "retry" THEN Slept(s, r.wait) ELSE LoginPageDone(s, r))

LoginPostAttempt ==
  /\ pc = "login_post"
  /\ \E resp \in Responses(LoginPostBodies), env \in Envs(TRUE) :
       LET s == Attempted(State, resp)
           r == RequestAttempt(retries, attempt, resp)
       IN  Become(IF r.status = "retry" THEN Slept(s, r.wait) ELSE LoginPostDone(s, r, env))

(***************************************************************************)
(* The client in use: constructed over a missing, a fresh or an expired    *)
(* cache, then called.                                                     *)
(***************************************************************************)
StartFiles ==
  { MissingFile,
    ObjectFile(Number(5000 - 60), List(<<CookieToDict(SessionA)>>)),
    ObjectFile(Number(5000 - SESSION_MAX_AGE - 1), List(<<CookieToDict(SessionB)>>)) }

Init ==
  /\ cache_file \in StartFiles
  /\ now = 5000
  /\ disable_cache \in BOOLEAN
  /\ cookie_jar = ClientInit(cache_file, now, disable_cache).jar
  /\ csrf_token = NoToken
  /\ signage_ready = FALSE
  /\ op = "none"
  /\ result = Constructed
  /\ Quiet

Next ==
  \/ GetStatus
  \/ Login
  \/ FetchRealtime
  \/ SignageAttempt
  \/ RealtimeAttempt
  \/ LoginPageAttempt
  \/ LoginPostAttempt

Spec == Init /\ [][Next]_vars

\* the scheduling of a single thread: the call in progress goes on, and every
\* opener.open() ends within its 30 s timeout
Fair == Spec /\ WF_vars(Next)

(***************************************************************************)
(* _download_login_form called on its own, over login pages of up to       *)
(* MaxForms forms.                                                         *)
(***************************************************************************)
LoginIdForm ==
  Form("post", "/session", <<Field("login_id", ""), Field("password", "")>>)
SubscribeForm == Form("get", "/subscribe", <<Field("Email", "")>>)

SampleForms == {SearchForm, SignInForm, LocaleForm, LoginIdForm, SubscribeForm}

FormPageBodies ==
  { Html("", m[1], m[2], fs, "") :
      m \in {<<"none", NoToken>>, <<"canonical", "tokA">>},
      fs \in SeqsUpTo(SampleForms, MaxForms) } \cup
  { Plain("maintenance") }

\* client._download_login_form()
DownloadLoginFormCall ==
  /\ CanCall
  /\ Become(BeginRequest([Called(State, "_download_login_form") EXCEPT
                            !.form = NoLoginForm],
                         "form_page", NoToken, DefaultRetries))

FormPageAttempt ==
  /\ pc = "form_page"
  /\ \E resp \in Responses(FormPageBodies) :
       LET s == Attempted(State, resp)
           r == RequestAttempt(retries, attempt, resp)
           d == DownloadLoginForm(s, r)
       IN  Become(IF r.status = "retry" THEN Slept(s, r.wait)
                  ELSE IF d.status = "raise" THEN Ended(d.s, d.exc)
                  ELSE Ended([d.s EXCEPT !.form = d.form], Returned(d.token)))

NextForm == DownloadLoginFormCall \/ FormPageAttempt

(***************************************************************************)
(* _build_login_payload called on its own, over forms of up to MaxFields   *)
(* fields.                                                                 *)
(***************************************************************************)
SampleFields ==
  { Field("authenticity_token", "x1"), Field("user[email]", ""),
    Field("user[password]", ""), Field("user[remember_me]", ""),
    Field("user[remember_me]", "0"), Field("login_id", "old"),
    Field("login[email]", ""), Field("login[password]", ""),
    Field("Login[Password]", ""), Field("Email", ""),
    Field("Remember", ""), Field("remember_email", "") }

\* a dict has each key once
FieldLists ==
  {q \in SeqsUpTo(SampleFields, MaxFields) :
     \A i, j \in 1..Len(q) : q[i].name = q[j].name => i = j}

\* a client that holds the form of a login page
InitPayload ==
  /\ cache_file = MissingFile
  /\ now = 5000
  /\ disable_cache = FALSE
  /\ cookie_jar = <<>>
  /\ csrf_token = NoToken
  /\ signage_ready = FALSE
  /\ op = "none"
  /\ result = Constructed
  /\ phase = "none" /\ pc = "idle" /\ retries = 0 /\ attempt = 0 /\ outcomes = <<>>
  /\ sleeps = <<>> /\ hdr_csrf = NoToken /\ log = <<>> /\ main = NoMain
  /\ form \in {LoginForm("/users/sign_in", fields) : fields \in FieldLists}

\* client._build_login_payload(form["fields"])
BuildLoginPayloadCall ==
  /\ CanCall
  /\ LET run == BuildLoginPayloadRun(form.fields)
     IN  Become(Ended([Called(State, "_build_login_payload") EXCEPT
                         !.form.fields = run.fields],
                      Returned(run.payload)))

NextPayload == BuildLoginPayloadCall

(***************************************************************************)
(* Persisting the session and loading it in a later process.               *)
(***************************************************************************)
\* a persistent cookie that has expired, and one below a path
ExpiredC == DomainCookie("seen", "1", 4000)
PathC == [ServerCookie("pref", "ja") EXCEPT !.path = "/organizations", !.secure = FALSE]

SampleCookies == {SessionA, SessionB, RememberC, ExpiredC, PathC}

RECURSIVE JarOf(_)
\* the jar after the server has set these cookies one after the other
JarOf(cookies) ==
  IF cookies = <<>> THEN <<>>
  ELSE SetCookie(JarOf(SubSeq(cookies, 1, Len(cookies) - 1)), cookies[Len(cookies)])

Jars == {JarOf(q) : q \in SeqsUpTo(SampleCookies, MaxJar)}

\* a client whose jar the server has filled, over no cache file yet
InitTrip ==
  /\ cache_file = MissingFile
  /\ now = 5000
  /\ disable_cache = FALSE
  /\ cookie_jar \in Jars
  /\ csrf_token = NoToken
  /\ signage_ready = FALSE
  /\ op = "none"
  /\ result = Constructed
  /\ Quiet

\* client._persist_session()
PersistCall ==
  /\ CanCall
  /\ \E env \in Envs(TRUE) :
       LET s == Persisted(Called(State, "_persist_session"), env)
       IN  Become(Ended(s, IF PersistRaises(Called(State, "_persist_session"), env)
                            THEN Raised("OSError") ELSE Returned("")))

\* the clock readings of a later process: at once, at the max age of a cache
\* written at 5000 or later, and past it
LaterClocks ==
  {5000 + d : d \in {0, ClockSpan, SESSION_MAX_AGE, SESSION_MAX_AGE + 1,
                     SESSION_MAX_AGE + ClockSpan + 1}}

\* the process ends and a later one constructs KyoceraClient over the same
\* cache_path
Restart ==
  /\ CanCall
  /\ \E t \in {u \in LaterClocks : u >= now} :
       /\ now' = t
       /\ cookie_jar' = ClientInit(cache_file, t, disable_cache).jar
  /\ csrf_token' = NoToken
  /\ signage_ready' = FALSE
  /\ result' = Constructed
  /\ log' = <<Event("call", "__init__", "")>>
  /\ UNCHANGED <<disable_cache, cache_file, op, phase, pc, retries, attempt,
                 outcomes, sleeps, hdr_csrf, form, main>>

NextTrip == PersistCall \/ Restart

\* _request called on its own
InitRequest ==
  /\ cache_file = MissingFile
  /\ now = 5000
  /\ disable_cache = FALSE
  /\ cookie_jar = <<>>
  /\ csrf_token = NoToken
  /\ signage_ready = FALSE
  /\ op = "none"
  /\ result = Constructed
  /\ Quiet

NextRequest == DirectRequest \/ DirectAttempt

SpecRequest == InitRequest /\ [][NextRequest]_vars

\* a client without cache, like that of InitRequest
SpecForm == InitRequest /\ [][NextForm]_vars

SpecPayload == InitPayload /\ [][NextPayload]_vars

SpecTrip == InitTrip /\ [][NextTrip]_vars

(***************************************************************************)
(* main() in watch mode: the loop around client.get_status().              *)
(***************************************************************************)
\* --interval: the default and another value
Intervals == {30, 5}

\* except KyoceraError: the classes it catches
ExceptKyoceraError(error) ==
  error \in {"KyoceraError/network", "KyoceraError/failed", "KyoceraError/parse",
             "KyoceraError/result", "KyoceraHTTPError", "KyoceraAuthRequired",
             "KyoceraLoginError/form", "KyoceraLoginError/invalid"}

\* the rest of the loop body once get_status() has returned or raised: the
\* status is shown and error_count reset; a KyoceraError is shown and counted;
\* both are followed by time.sleep(args.interval); any other exception
\* leaves the loop and main()
WatchHandled(s) ==
  IF s.result.kind = "returned"
    THEN [s EXCEPT !.main = [@ EXCEPT !.at = "top", !.error_count = 0,
                                       !.printed = "status", !.waited = s.main.interval]]
  ELSE IF ExceptKyoceraError(s.result.error)
    THEN [s EXCEPT !.main = [@ EXCEPT !.at = "top", !.error_count = @ + 1,
                                       !.printed = s.result.error,
                                       !.waited = s.main.interval]]
  ELSE [s EXCEPT !.main = [@ EXCEPT !.at = "uncaught", !.printed = "traceback"]]

\* except KeyboardInterrupt: "Stopped.", return 0; a call in progress is left
WatchStopped(s) ==
  [(IF s.op = "none" THEN s ELSE Ended(s, Raised("KeyboardInterrupt"))) EXCEPT
     !.main = [@ EXCEPT !.at = "stopped", !.printed = "Stopped."]]

\* main(["--watch", "--interval", i]) with the client constructed
InitWatch ==
  /\ cache_file = MissingFile
  /\ now = 5000
  /\ disable_cache \in BOOLEAN
  /\ cookie_jar = ClientInit(cache_file, now, disable_cache).jar
  /\ csrf_token = NoToken
  /\ signage_ready = FALSE
  /\ op = "none"
  /\ result = Constructed
  /\ phase = "none" /\ pc = "idle" /\ retries = 0 /\ attempt = 0 /\ outcomes = <<>>
  /\ sleeps = <<>> /\ hdr_csrf = NoToken /\ form = NoLoginForm /\ log = <<>>
  /\ main \in {[NoMain EXCEPT !.at = "top", !.interval = i] : i \in Intervals}

\* while True: clear_screen(); client.get_status()
WatchCycle ==
  /\ main.at = "top" /\ CanCall
  /\ main.error_count < MaxErrors
  /\ Become(FetchBegin([Called(State, "get_status") EXCEPT
                          !.phase = "first", !.main.at = "cycle"]))

\* get_status() is over: the rest of the loop body
WatchReport ==
  /\ main.at = "cycle" /\ CanCall
  /\ Become(WatchHandled(State))

\* Ctrl+C
WatchInterrupt ==
  /\ main.at \in {"top", "cycle"}
  /\ Become(WatchStopped(State))

\* what the server answers while the loop runs: no cookies, and at each
\* endpoint an answer for every way get_status() can go on
WatchAnswers(bodies) ==
  {UrlError, ReadTimeout} \cup {HttpError(c, ErrorBody, <<>>) : c \in {401, 500}}
    \cup {Ok(b, <<>>) : b \in bodies}

WatchSignageBodies == {Html("", "none", NoToken, <<>>, "")}
WatchRealtimeBodies ==
  {Json("", "json_ok", "status1"), Json("", "json_list", ""), Json("", "json_error", ""),
   Html("", "none", NoToken, <<SignInForm>>, "")}
WatchLoginPageBodies ==
  {Html("", "none", NoToken, <<SignInForm>>, ""), Html("", "none", NoToken, <<>>, "")}
WatchLoginPostBodies ==
  {Html("", "none", NoToken, <<>>, ""), Html("", "none", NoToken, <<>>, "Invalid")}

WatchSignageAttempt ==
  /\ pc = "signage"
  /\ \E resp \in WatchAnswers(WatchSignageBodies) :
       LET s == Attempted(State, resp)
           r == RequestAttempt(retries, attempt, resp)
       IN  Become(IF r.status = "retry" THEN Slept(s, r.wait) ELSE SignageDone(s, r))

WatchRealtimeAttempt ==
  /\ pc = "realtime"
  /\ \E resp \in WatchAnswers(WatchRealtimeBodies),
        env \in Envs(op = "get_status" /\ phase = "retry") :
       LET s == Attempted(State, resp)
           r == RequestAttempt(retries, attempt, resp)
       IN  Become(IF r.status = "retry" THEN Slept(s, r.wait) ELSE RealtimeDone(s, r, env))

WatchLoginPageAttempt ==
  /\ pc = "login_page"
  /\ \E resp \in WatchAnswers(WatchLoginPageBodies) :
       LET s == Attempted(State, resp)
           r == RequestAttempt(retries, attempt, resp)
       IN  Become(IF r.status = "retry" THEN Slept(s, r.wait) ELSE LoginPageDone(s, r))

WatchLoginPostAttempt ==
  /\ pc = "login_post"
  /\ \E resp \in WatchAnswers(WatchLoginPostBodies), env \in Envs(TRUE) :
       LET s == Attempted(State, resp)
           r == RequestAttempt(retries, attempt, resp)
       IN  Become(IF r.status = "retry" THEN Slept(s, r.wait) ELSE LoginPostDone(s, r, env))

NextWatch ==
  \/ WatchCycle
  \/ WatchReport
  \/ WatchInterrupt
  \/ WatchSignageAttempt
  \/ WatchRealtimeAttempt
  \/ WatchLoginPageAttempt
  \/ WatchLoginPostAttempt

SpecWatch == InitWatch /\ [][NextWatch]_vars

(***************************************************************************)
(* Properties.  The log holds the calls of the current top-level call, or  *)
(* of the last one when none is in progress.                               *)
(***************************************************************************)
Positions(ev, fn, x) == {i \in 1..Len(log) : log[i] = Event(ev, fn, x)}
Count(ev, fn, x) == Cardinality(Positions(ev, fn, x))
Requests(endpoint) ==
  Cardinality({i \in 1..Len(log) : log[i].ev = "request" /\ log[i].fn = endpoint})
FetchRaises == {i \in 1..Len(log) : log[i].ev = "raise" /\ log[i].fn = "fetch_realtime"}
LoginRaises == {i \in 1..Len(log) : log[i].ev = "raise" /\ log[i].fn = "login"}

\* the log is that of a get_status() call
InGetStatus == log # <<>> /\ log[1] = Event("call", "get_status", "")
\* that call is over
GetStatusOver == InGetStatus /\ op = "none"

AuthRaise == Event("raise", "fetch_realtime", "KyoceraAuthRequired")

\* C1: within one get_status() call login() is invoked at most once and
\* fetch_realtime() at most twice; once both fetches have raised
\* KyoceraAuthRequired there was exactly one login(), and the call is over with
\* the second KyoceraAuthRequired as its outcome.
C1_RetryOnce ==
  InGetStatus =>
    /\ Count("call", "login", "") <= 1
    /\ Count("call", "fetch_realtime", "") <= 2
    /\ Count("raise", "fetch_realtime", "KyoceraAuthRequired") = 2 =>
         /\ Count("call", "login", "") = 1
         /\ Count("call", "fetch_realtime", "") = 2
         /\ op = "none"
         /\ result = Raised("KyoceraAuthRequired")
         /\ log[Len(log) - 1] = AuthRaise

C1_Witness ==
  InGetStatus /\ Count("raise", "fetch_realtime", "KyoceraAuthRequired") = 2

\* C2: a KyoceraAuthRequired raised by the first fetch_realtime() of a
\* get_status() call is followed at once by a call of login(); and when
\* get_status() ends in KyoceraAuthRequired, it was raised by the second
\* fetch_realtime(), which began right after login() had returned.
C2_FirstAuthRequiredCaught ==
  InGetStatus =>
    /\ \A i \in Positions("raise", "fetch_realtime", "KyoceraAuthRequired") :
         (\A j \in 1..(i - 1) : log[j] # Event("call", "login", "")) =>
           /\ i < Len(log)
           /\ log[i + 1] = Event("call", "login", "")
    /\ (op = "none" /\ result.kind = "raised" /\ result.error = "KyoceraAuthRequired") =>
         \E j \in Positions("return", "login", "") :
           /\ log[j + 1] = Event("call", "fetch_realtime", "")
           /\ Count("call", "fetch_realtime", "") = 2
           /\ Count("persist", "_persist_session", "OSError") = 0
           /\ log[Len(log) - 1] = AuthRaise
           /\ j + 1 < Len(log) - 1

C2_Witness ==
  /\ GetStatusOver
  /\ result = Raised("KyoceraAuthRequired")
  /\ Count("return", "login", "") = 1

\* C3: within get_status(), a call of login() comes right after the first
\* fetch_realtime() raised KyoceraAuthRequired and nowhere else; when the first
\* fetch raises anything else the call is over with that error, without a
\* login() and without a second fetch; when login() raises the call is over
\* with that error, without a second fetch.
C3_OnlyLocalRecovery ==
  InGetStatus =>
    /\ \A i \in Positions("call", "login", "") :
         /\ log[i - 1] = AuthRaise
         /\ Cardinality({j \in 1..i : log[j] = Event("call", "fetch_realtime", "")}) = 1
    /\ \A i \in FetchRaises :
         (log[i].x # "KyoceraAuthRequired" /\ Positions("call", "login", "") = {}) =>
           /\ op = "none"
           /\ result.kind = "raised" /\ result.error = log[i].x
           /\ result.error = "KyoceraHTTPError" => result.code \notin {401, 403}
           /\ Count("call", "fetch_realtime", "") = 1
           /\ i = Len(log) - 1
    /\ \A i \in LoginRaises :
         /\ op = "none"
         /\ result.kind = "raised" /\ result.error = log[i].x
         /\ Count("call", "fetch_realtime", "") = 1
         /\ i = Len(log) - 1

C3_Witness ==
  /\ GetStatusOver
  /\ result.error = "KyoceraHTTPError" /\ result.code = 500
  /\ Count("call", "login", "") = 0

\* C4: a get_status() call in progress comes to its end, whatever the server
\* answers; it sends at most 2 signage GETs, 2 realtime GETs, 1 login-page GET
\* and 1 login POST, and no request makes more than `retries` attempts.
\* Termination is stated by a variant: Remaining bounds the opener.open() calls
\* the call can still make, every step of the call lowers it, and a call in
\* progress always has a step to take.
RequestsLeft ==
  CASE phase = "first" /\ pc = "signage"    -> 6
    [] phase = "first" /\ pc = "realtime"   -> 5
    [] phase = "login" /\ pc = "login_page" -> 4
    [] phase = "login" /\ pc = "login_post" -> 3
    [] phase = "retry" /\ pc = "signage"    -> 2
    [] phase = "retry" /\ pc = "realtime"   -> 1
    [] OTHER                                -> 0

Remaining == IF op = "get_status" THEN RequestsLeft * retries - Len(outcomes) ELSE 0

C4_Bounded ==
  /\ [](InGetStatus =>
          /\ Requests("signage") <= 2
          /\ Requests("realtime") <= 2
          /\ Requests("login_page") <= 1
          /\ Requests("login_post") <= 1
          /\ Len(outcomes) <= retries
          /\ op = "get_status" => retries = DefaultRetries /\ Remaining > 0)
  /\ [][op = "get_status" => Remaining' < Remaining]_vars
  /\ [](op = "get_status" => ENABLED Next)

C4_Witness ==
  /\ GetStatusOver
  /\ Requests("signage") = 2 /\ Requests("realtime") = 2
  /\ Requests("login_page") = 1 /\ Requests("login_post") = 1
  /\ result.kind = "returned"

\* C5: with the cache enabled, a get_status() call that returned a status
\* record has written the cache file during the call, and the file holds the
\* jar and the clock reading of that moment; and login() returns only after
\* _persist_session has written the file.
C5_PersistedAfterFetchAndLogin ==
  (~disable_cache /\ log # <<>>) =>
    /\ (GetStatusOver /\ result.kind = "returned") =>
         /\ Count("persist", "_persist_session", "written") >= 1
         /\ cache_file = ObjectFile(Number(now), List(CookiesToDicts(cookie_jar)))
    /\ \A j \in Positions("return", "login", "") :
         log[j - 1] = Event("persist", "_persist_session", "written")

\* the part of C5 about login(), and about the fetch that follows a login
C5_PersistedAfterLogin ==
  (~disable_cache /\ log # <<>>) =>
    /\ (GetStatusOver /\ result.kind = "returned" /\ Count("call", "login", "") = 1) =>
         /\ Count("persist", "_persist_session", "written") = 2
         /\ cache_file = ObjectFile(Number(now), List(CookiesToDicts(cookie_jar)))
    /\ \A j \in Positions("return", "login", "") :
         log[j - 1] = Event("persist", "_persist_session", "written")

(***************************************************************************)
(* Properties of the construction (SpecLoad).                              *)
(***************************************************************************)
Loaded == op # "new" /\ ~disable_cache

\* now - timestamp <= SESSION_MAX_AGE, a missing timestamp counting as 0
AgeWithin(t, timestamp) ==
  /\ timestamp.type \in {"missing", "number"}
  /\ t - timestamp.v <= SESSION_MAX_AGE

AgeExceeds(t, timestamp) ==
  /\ timestamp.type \in {"missing", "number"}
  /\ t - timestamp.v > SESSION_MAX_AGE

\* C6: after _load_session_cache the jar holds cookies only if
\* now - timestamp <= SESSION_MAX_AGE (a missing timestamp counting as 0), and
\* holds none when the age exceeds SESSION_MAX_AGE.
C6_OnlyFreshCookies ==
  Loaded =>
    /\ cookie_jar # <<>> => AgeWithin(now, cache_file.timestamp)
    /\ AgeExceeds(now, cache_file.timestamp) => cookie_jar = <<>>

\* the part of C6 that holds: a cache older than SESSION_MAX_AGE loads nothing,
\* and a timestamp that is a number admits cookies only within SESSION_MAX_AGE
C6_ExpiredLoadsNothing ==
  Loaded =>
    /\ AgeExceeds(now, cache_file.timestamp) => cookie_jar = <<>>
    /\ (cookie_jar # <<>> /\ cache_file.timestamp.type # "nan") =>
         AgeWithin(now, cache_file.timestamp)

\* a parse error or a schema mismatch: what makes the try body raise
Malformed(file) ==
  \/ file.state \in {"invalid", "nonobject"}
  \/ /\ file.state = "object"
     /\ \/ file.timestamp.type = "other"
        \/ file.cookies.type = "other"
        \/ \E i \in 1..Len(file.cookies.items) :
             CookieFromDict(file.cookies.items[i]).status = "raise"

\* C7: after _load_session_cache over a cache file with a parse error or a
\* schema mismatch (a malformed entry at any position of the cookies list
\* included) the jar holds no cookie of the file.
C7_MalformedLoadsNothing ==
  (Loaded /\ Malformed(cache_file)) => cookie_jar = <<>>

\* C8: the construction over any cache file completes without raising, and a
\* cache that is missing, malformed or expired leaves the jar without cookies.
C8_LoadNeverRaises ==
  op # "new" =>
    /\ result = Constructed
    /\ \/ cache_file.state = "missing"
       \/ Malformed(cache_file)
       \/ AgeExceeds(now, cache_file.timestamp)
       => cookie_jar = <<>>

\* the part of C8 that holds: no exception leaves the constructor
C8_ConstructionCompletes == op # "new" => result = Constructed

(***************************************************************************)
(* Properties of _request (SpecRequest).                                   *)
(***************************************************************************)
InRequest == log # <<>> /\ log[1] = Event("call", "_request", "")

\* 2^0, 2^1, ..., 2^(k-1)
Backoff(k) == [i \in 1..k |-> 2 ^ (i - 1)]

AllUrlErrors ==
  outcomes # <<>> /\ \A i \in 1..Len(outcomes) : outcomes[i].kind = "urlerror"

\* C9: while every attempt of a _request with retries = N >= 1 ends in a
\* URLError, each failed attempt but the N-th is followed by one sleep, of
\* 2^0, 2^1, ... seconds in that order; after the N-th the request is over
\* with N attempts, the N-1 sleeps 2^0 .. 2^(N-2) and a network error.
C9_Backoff ==
  (InRequest /\ AllUrlErrors) =>
    IF pc = "direct"
      THEN Len(outcomes) < retries /\ sleeps = Backoff(Len(outcomes))
      ELSE /\ Len(outcomes) = retries
           /\ sleeps = Backoff(retries - 1)
           /\ result = Raised("KyoceraError/network")

C9_Witness ==
  /\ InRequest /\ AllUrlErrors /\ pc = "idle"
  /\ retries = 3 /\ sleeps = <<1, 2>>

\* C10: an attempt of _request that ends in an HTTPError is the last one: the
\* request is over with KyoceraHTTPError carrying the status code and the body
\* of that response, and no sleep follows it.
C10_HttpErrorNotRetried ==
  InRequest =>
    \A i \in 1..Len(outcomes) :
      outcomes[i].kind = "http" =>
        /\ i = Len(outcomes)
        /\ pc = "idle"
        /\ result = RaisedHTTP(outcomes[i].code, outcomes[i].body)
        /\ Len(sleeps) = i - 1

C10_Witness ==
  /\ InRequest /\ Len(outcomes) >= 2
  /\ outcomes[Len(outcomes)].kind = "http"
  /\ outcomes[1].kind = "urlerror"

(***************************************************************************)
(* Properties of fetch_realtime (Spec).  When a call of the session        *)
(* manager is over, outcomes holds the attempts of its last request and    *)
(* the log the endpoint that request went to.                              *)
(***************************************************************************)
FetchOver == op = "none" /\ log # <<>> /\ log[1] = Event("call", "fetch_realtime", "")

RequestEvents == {i \in 1..Len(log) : log[i].ev = "request"}

\* the endpoint of the last request of the call
LastEndpoint ==
  IF RequestEvents = {} THEN "none"
  ELSE log[CHOOSE i \in RequestEvents : \A j \in RequestEvents : j <= i].fn

\* the response that ended the last request of the call
LastOutcome == outcomes[Len(outcomes)]

\* C11: a fetch_realtime() call ends with KyoceraAuthRequired exactly when its
\* last request (the signage GET or the realtime GET) was answered 401 or 403,
\* or the realtime GET was answered with a body that starts with "<" once its
\* leading whitespace is stripped.
C11_AuthRequiredDetection ==
  FetchOver =>
    ( result = Raised("KyoceraAuthRequired")
      <=> \/ LastOutcome.kind = "http" /\ LastOutcome.code \in {401, 403}
          \/ /\ LastEndpoint = "realtime"
             /\ LastOutcome.kind = "ok"
             /\ LastOutcome.body.doc = "html" )

C11_Witness ==
  /\ FetchOver /\ result = Raised("KyoceraAuthRequired")
  /\ LastEndpoint = "realtime" /\ LastOutcome.kind = "ok"
  /\ LastOutcome.body.lead = " "

\* the realtime GET of the call was answered 200 with a body that is not HTML
RealtimeAnswered ==
  /\ FetchOver /\ LastEndpoint = "realtime" /\ LastOutcome.kind = "ok"
  /\ LastOutcome.body.doc # "html"

\* C12: a fetch_realtime() call whose realtime GET was answered with a non-HTML
\* body ends with a protocol error when the body is not JSON, with a protocol
\* error when it is an envelope whose result is not "ok", and by returning
\* the data field of the envelope, unchanged, when its result is "ok".
C12_EnvelopeValidation ==
  RealtimeAnswered =>
    /\ LastOutcome.body.doc = "text" => result = Raised("KyoceraError/parse")
    /\ LastOutcome.body.doc = "json_error" => result = Raised("KyoceraError/result")
    /\ LastOutcome.body.doc = "json_ok" => result = Returned(LastOutcome.body.data)

C12_Witness ==
  /\ RealtimeAnswered /\ LastOutcome.body.doc = "json_ok"
  /\ LastOutcome.body.lead = " " /\ result = Returned("status1")

\* KyoceraError and its subclasses
KyoceraFamily ==
  {"KyoceraError/network", "KyoceraError/failed", "KyoceraError/parse",
   "KyoceraError/result", "KyoceraHTTPError", "KyoceraAuthRequired",
   "KyoceraLoginError/form", "KyoceraLoginError/invalid"}

\* C13: a get_status() call that is over, and whose last request the server
\* answered, has returned a status record or raised an error of the
\* KyoceraError family, whatever the answer was: also for a realtime body that
\* is JSON but no object, and for an envelope {"result": "ok"} without a data
\* field.
C13_TypedOutcome ==
  (GetStatusOver /\ LastOutcome.kind \in {"ok", "http"}) =>
    \/ result.kind = "returned"
    \/ result.kind = "raised" /\ result.error \in KyoceraFamily

\* the two bodies C13 names do end get_status() with an untyped exception
C13_UntypedReached ==
  /\ GetStatusOver /\ LastEndpoint = "realtime" /\ LastOutcome.kind = "ok"
  /\ \/ LastOutcome.body.doc = "json_list" /\ result = Raised("AttributeError")
     \/ LastOutcome.body.doc = "json_nodata" /\ result = Raised("KeyError")

(***************************************************************************)
(* Properties of the CSRF token and of the primed flag (Spec).             *)
(***************************************************************************)
\* C14: while the client knows a CSRF token, a login POST or a realtime GET in
\* flight carries the X-CSRF-Token header, whatever calls came before and
\* whatever the login page of this login held.
C14_TokenAttached ==
  (csrf_token # NoToken /\ pc \in {"login_post", "realtime"}) => hdr_csrf # NoToken

\* the part of C14 that holds: a realtime GET carries the token the client
\* holds, and a login POST the token of its own login page
C14_RealtimeCarriesToken ==
  /\ pc = "realtime" => hdr_csrf = csrf_token
  /\ (pc = "login_post" /\ hdr_csrf # NoToken) => hdr_csrf = csrf_token

\* the tokens the csrf-token meta tags of these bodies hold
TokensOf(bodies) == {b.token : b \in {c \in bodies : c.meta # "none"}} \ {NoToken, ""}

\* C15: csrf_token is never the empty string; once it holds a token, no step
\* makes it None; and a step changes it only while the answer of a signage,
\* login-page or login POST request is handled, to a token that a csrf-token
\* meta tag of such an answer holds.
C15_TokenNeverCleared ==
  /\ [](csrf_token # "")
  /\ [][ /\ csrf_token # NoToken => csrf_token' # NoToken
         /\ csrf_token' # csrf_token =>
              \/ pc = "signage" /\ csrf_token' \in TokensOf(SignageBodies)
              \/ pc = "login_page" /\ csrf_token' \in TokensOf(LoginPageBodies)
              \/ pc = "login_post" /\ csrf_token' \in TokensOf(LoginPostBodies) ]_vars

\* a login that failed on a page without token or form, the token still held
C15_Witness ==
  /\ op = "none" /\ log # <<>> /\ log[1] = Event("call", "login", "")
  /\ result = Raised("KyoceraLoginError/form")
  /\ LastOutcome.body.meta = "none"
  /\ csrf_token = "tokA"

\* this step ends a login() without error
LoginReturns ==
  /\ pc = "login_post"
  /\ \E i \in 1..Len(log') : log'[i] = Event("return", "login", "")

\* this step ends a login() with one of these errors
LoginFailsWith(errors) ==
  /\ pc \in {"login_page", "login_post"}
  /\ \E i \in 1..Len(log') :
       log'[i].ev = "raise" /\ log'[i].fn = "login" /\ log'[i].x \in errors

\* what login() can raise
LoginErrors ==
  {"KyoceraLoginError/form", "KyoceraLoginError/invalid", "KyoceraHTTPError",
   "KyoceraError/network", "TimeoutError", "OSError"}

\* this step is a signage GET answered without error
SignageSucceeds == pc = "signage" /\ pc' = "realtime"

\* C16 as stated: the primed flag goes from true to false only in the step
\* that ends a login() without error, from false to true only with a
\* successful signage GET, and a step that ends a login() with an error
\* leaves it as it was.
C16_FlagOnlyResetByCompletedLogin ==
  [][ /\ (signage_ready /\ ~signage_ready') => LoginReturns
      /\ (~signage_ready /\ signage_ready') => SignageSucceeds
      /\ LoginFailsWith(LoginErrors) => signage_ready' = signage_ready ]_vars

\* C16 as amended: the primed flag goes from true to false only in the step
\* that handles an accepted login POST, which ends the login() without error
\* or with the OSError of _persist_session, the flag reset in both cases;
\* from false to true only with a successful signage GET; and a step that
\* ends a login() with any other error leaves it as it was.
C16_FlagResetByAcceptedLogin ==
  [][ /\ (signage_ready /\ ~signage_ready') => (LoginReturns \/ LoginFailsWith({"OSError"}))
      /\ (LoginReturns \/ LoginFailsWith({"OSError"})) => ~signage_ready'
      /\ (~signage_ready /\ signage_ready') => SignageSucceeds
      /\ LoginFailsWith(LoginErrors \ {"OSError"}) => signage_ready' = signage_ready ]_vars

\* a get_status() whose login was accepted after the client had been primed,
\* and failed writing the cache file
C16_Witness ==
  /\ GetStatusOver /\ result = Raised("OSError")
  /\ Count("raise", "login", "OSError") = 1
  /\ Requests("realtime") = 1
  /\ ~signage_ready

(***************************************************************************)
(* Properties of _download_login_form (SpecForm).                          *)
(***************************************************************************)
\* a _download_login_form() call is over and its login page was answered
FormPageAnswered ==
  /\ op = "none" /\ log # <<>> /\ log[1] = Event("call", "_download_login_form", "")
  /\ LastOutcome.kind = "ok"

\* the forms of the page, in document order
PageForms == IF LastOutcome.body.doc = "html" THEN LastOutcome.body.forms ELSE <<>>

\* the positions of the POST forms, and of those with an email-like field
PostForms == {i \in 1..Len(PageForms) : PageForms[i].method = "post"}
EmailPostForms ==
  {i \in PostForms :
     \E k \in 1..Len(PageForms[i].fields) :
        LET n == Lower(PageForms[i].fields[k].name)
        IN  Contains(n, "email") \/ Contains(n, "login")}

First(S) == CHOOSE i \in S : \A j \in S : i <= j

\* the form at position i, as _download_login_form returns it
Selected(i) ==
  LoginForm(IF PageForms[i].action = "" THEN "/users/sign_in" ELSE PageForms[i].action,
            PageForms[i].fields)

\* C17: _download_login_form returns the first POST form of the page that has
\* an email-like field, wherever it stands among the POST forms; without such
\* a form, the first POST form; and without any POST form it raises.
C17_FormSelection ==
  FormPageAnswered =>
    IF EmailPostForms # {}
      THEN result.kind = "returned" /\ form = Selected(First(EmailPostForms))
    ELSE IF PostForms # {}
      THEN result.kind = "returned" /\ form = Selected(First(PostForms))
    ELSE result = Raised("KyoceraLoginError/form") /\ form = NoLoginForm

\* a page whose email-like POST form stands after another POST form and a
\* GET form with an email-like field
C17_Witness ==
  /\ FormPageAnswered
  /\ PageForms = <<SubscribeForm, LocaleForm, SignInForm>>
  /\ form = LoginForm("/users/sign_in", SignInForm.fields)

(***************************************************************************)
(* Properties of login() (Spec).                                           *)
(***************************************************************************)
\* the call is over, its last request was the login page, and the page that
\* answered has no POST form
NoPostFormPage ==
  /\ op = "none" /\ log # <<>> /\ LastEndpoint = "login_page"
  /\ LastOutcome.kind = "ok" /\ PostForms = {}

\* the POST forms that the login pages of the model hold
PagePostForms ==
  UNION { {b.forms[i] : i \in {k \in 1..Len(b.forms) : b.forms[k].method = "post"}} :
          b \in {c \in LoginPageBodies : c.doc = "html"} }

\* C18: a login() whose login page has no POST form raises KyoceraLoginError
\* (form not found) and has sent no POST and not called _persist_session; a
\* login POST in flight goes to a POST form of a login page; and no step of a
\* login() up to the answer of its login page changes the cache file or the
\* primed flag.
C18_NoPostForm ==
  /\ [](pc = "login_post" =>
          \E f \in PagePostForms : form = LoginForm(ActionOf(f), f.fields))
  /\ [](NoPostFormPage =>
          /\ result = Raised("KyoceraLoginError/form")
          /\ log[Len(log) - 1] = Event("raise", "login", "KyoceraLoginError/form")
          /\ Requests("login_post") = 0
          /\ \A i \in 1..Len(log) : log[i].ev # "persist")
  /\ [][(pc = "login_page" \/ pc' = "login_page") =>
          (cache_file' = cache_file /\ signage_ready' = signage_ready)]_vars

\* a primed client over a written cache whose login met a page with a GET form only
C18_Witness ==
  /\ NoPostFormPage /\ PageForms = <<SearchForm>>
  /\ log[1] = Event("call", "login", "")
  /\ signage_ready /\ cache_file.state = "object"

(***************************************************************************)
(* Properties of _build_login_payload (SpecPayload): form.fields holds the *)
(* fields given and result.value the payload returned.                     *)
(***************************************************************************)
PayloadOver ==
  op = "none" /\ log # <<>> /\ log[1] = Event("call", "_build_login_payload", "")

\* the first of the names given that contains one of the parts, else the fallback
Chosen(parts, fallback) ==
  LET hits == {i \in 1..Len(form.fields) :
                 \E m \in parts : Contains(Lower(form.fields[i].name), m)}
  IN  IF hits = {} THEN fallback ELSE form.fields[First(hits)].name

\* the value the payload returned holds for this name, "absent" without it
ValueOf(name) ==
  IF \E i \in 1..Len(result.value) : result.value[i].name = name
    THEN result.value[CHOOSE i \in 1..Len(result.value) : result.value[i].name = name].value
    ELSE "absent"

\* C19: the payload _build_login_payload returns holds the configured email
\* under the field chosen for the email and the configured password under the
\* field chosen for the password, the two in one field each.
C19_BothCredentials ==
  PayloadOver =>
    /\ ValueOf(Chosen({"email", "login"}, "user[email]")) = ConfigEmail
    /\ ValueOf(Chosen({"password"}, "user[password]")) = ConfigPassword
    /\ Chosen({"email", "login"}, "user[email]") # Chosen({"password"}, "user[password]")

\* the part of C19 that holds: the password is always in the payload, under
\* the field chosen for it, and so is the email unless the two fields are one
C19_PasswordPresent ==
  PayloadOver =>
    /\ ValueOf(Chosen({"password"}, "user[password]")) = ConfigPassword
    /\ Chosen({"email", "login"}, "user[email]") # Chosen({"password"}, "user[password]")
         => ValueOf(Chosen({"email", "login"}, "user[email]")) = ConfigEmail

(***************************************************************************)
(* Properties of the cookie round trip (SpecTrip).                         *)
(***************************************************************************)
\* the seven attributes of each cookie of the jar, in the jar's order
Attributes(jar) ==
  [i \in 1..Len(jar) |->
     [name |-> jar[i].name, value |-> jar[i].value, domain |-> jar[i].domain,
      path |-> jar[i].path, secure |-> jar[i].secure, expires |-> jar[i].expires,
      discard |-> jar[i].discard]]

\* the last call of the process wrote the cache file
JustPersisted ==
  /\ log # <<>> /\ log[1] = Event("call", "_persist_session", "")
  /\ result.kind = "returned"

\* this step constructs the client of a later process
Reloads == log' = <<Event("call", "__init__", "")>>

\* C20: a client constructed, within SESSION_MAX_AGE of the write, over the
\* cache file that _persist_session has just written holds the cookies of the
\* jar persisted, in the same order, each with the same name, value, domain,
\* path, secure flag, expiry and discard flag.
C20_RoundTrip ==
  [][ ( /\ JustPersisted /\ Reloads
        /\ now' - cache_file.timestamp.v <= SESSION_MAX_AGE )
      => Attributes(cookie_jar') = Attributes(cookie_jar) ]_vars

\* a jar with a session-only cookie among others, loaded at the max age
C20_Witness ==
  /\ log = <<Event("call", "__init__", "")>>
  /\ cache_file.state = "object"
  /\ now - cache_file.timestamp.v = SESSION_MAX_AGE
  /\ Attributes(cookie_jar) = Attributes(<<SessionA, PathC, RememberC>>)
  /\ cache_file.cookies.items = CookiesToDicts(cookie_jar)

(***************************************************************************)
(* Properties of the priming of the session (Spec).                        *)
(***************************************************************************)
\* the requests of the log that went to this endpoint
RequestsTo(endpoint) == {i \in RequestEvents : log[i].fn = endpoint}

\* this step enters fetch_realtime()
FetchCalled ==
  Cardinality({i \in 1..Len(log') : log'[i] = Event("call", "fetch_realtime", "")})
    > IF op = "none" THEN 0 ELSE Count("call", "fetch_realtime", "")

\* C22: the realtime endpoint is requested only while the primed flag is true;
\* the flag becomes true only with a successful signage GET and is false after
\* every login() that returned, so that a fetch_realtime() entered with the
\* flag false requests the signage page first; and within one call, a realtime
\* request that follows the return of login() comes right after a signage
\* request.
C22_PrimedBeforeRealtime ==
  /\ [](pc = "realtime" => signage_ready)
  /\ [](\A i \in RequestsTo("realtime") :
          (\E j \in 1..(i - 1) : log[j] = Event("return", "login", ""))
            => (log[i - 1].ev = "request" /\ log[i - 1].fn = "signage"))
  /\ [][ /\ (~signage_ready /\ signage_ready') => SignageSucceeds
         /\ LoginReturns => ~signage_ready'
         /\ (FetchCalled /\ ~signage_ready') => pc' = "signage"
         /\ (pc # "realtime" /\ pc' = "realtime") =>
              (SignageSucceeds \/ (FetchCalled /\ signage_ready)) ]_vars

\* a get_status() of a primed client: its first fetch went to the realtime
\* endpoint at once, and its second, after the login, to the signage page first
C22_Witness ==
  /\ GetStatusOver /\ result.kind = "returned"
  /\ log[3].ev = "request" /\ log[3].fn = "realtime"
  /\ \E j \in Positions("return", "login", "") :
       /\ log[j + 2].ev = "request" /\ log[j + 2].fn = "signage"
       /\ log[j + 3].ev = "request" /\ log[j + 3].fn = "realtime"

\* this step ends a signage GET with an error
SignageFails == pc = "signage" /\ pc' \notin {"signage", "realtime"}

\* what _ensure_signage_ready raises for this answer of the signage GET
SignageError(o) ==
  IF o.kind = "http" /\ o.code \in {401, 403} THEN Raised("KyoceraAuthRequired")
  ELSE IF o.kind = "http" THEN RaisedHTTP(o.code, o.body)
  ELSE IF o.kind = "urlerror" THEN Raised("KyoceraError/network")
  ELSE Raised("TimeoutError")

\* C23: a fetch_realtime() entered by a primed client goes to the realtime
\* request at once, with no signage request, and with the CSRF token, the
\* primed flag and the cache file as they were; a step in which the signage GET
\* fails leaves the flag false and the token and the cache file unchanged, and
\* raises KyoceraAuthRequired for a 401 or 403 and the error of the request
\* itself otherwise.
C23_EnsureSignageReady ==
  [][ /\ (FetchCalled /\ signage_ready') =>
           /\ signage_ready /\ pc' = "realtime"
           /\ csrf_token' = csrf_token /\ cache_file' = cache_file
           /\ log'[Len(log') - 1] = Event("call", "fetch_realtime", "")
      /\ SignageFails =>
           /\ ~signage_ready /\ ~signage_ready'
           /\ csrf_token' = csrf_token /\ cache_file' = cache_file
           /\ log'[Len(log) + 1].ev = "raise" /\ log'[Len(log) + 1].fn = "fetch_realtime"
           /\ pc' = "login_page" => log'[Len(log) + 1] = AuthRaise
           /\ pc' = "idle" =>
                /\ result' = SignageError(LastOutcome')
                /\ log'[Len(log) + 1].x = result'.error ]_vars

\* a get_status() of a primed client that holds a token: its first fetch sent
\* no signage request, and the signage GET of its second was answered 500
C23_Witness ==
  /\ GetStatusOver /\ result = RaisedHTTP(500, ErrorBody)
  /\ log[3].ev = "request" /\ log[3].fn = "realtime"
  /\ LastEndpoint = "signage"
  /\ ~signage_ready /\ csrf_token = "tokA"

(***************************************************************************)
(* Properties of a rejected login (Spec).                                  *)
(***************************************************************************)
\* the call is over, its last request was the login POST, and the body that
\* _request returned for it holds a failure marker
LoginRejected ==
  /\ op = "none" /\ log # <<>> /\ LastEndpoint = "login_post"
  /\ LastOutcome.kind = "ok"
  /\ LastOutcome.body.marker \in {"Invalid", "error_explanation"}

\* this step calls _persist_session
PersistCalled ==
  \E i \in (IF op = "none" THEN 1 ELSE Len(log) + 1)..Len(log') : log'[i].ev = "persist"

\* C24: a login() whose POST was answered with a body that holds "Invalid" or
\* "error_explanation" ends with KyoceraLoginError, without a call of
\* _persist_session, and the step that handles the answer leaves the cache
\* file, the primed flag and the CSRF token as they were; a step of login()
\* that writes the cache file or calls _persist_session handles a POST answer
\* without failure marker.
C24_RejectedLogin ==
  /\ [](LoginRejected =>
          /\ result = Raised("KyoceraLoginError/invalid")
          /\ log[Len(log) - 1] = Event("raise", "login", "KyoceraLoginError/invalid")
          /\ \A i \in 1..Len(log) : log[i].ev # "persist")
  /\ [][ /\ (pc = "login_post" /\ LoginRejected') =>
              /\ cache_file' = cache_file
              /\ signage_ready' = signage_ready
              /\ csrf_token' = csrf_token
         /\ (pc \in {"login_page", "login_post"}
               /\ (cache_file' # cache_file \/ PersistCalled)) =>
              /\ pc = "login_post"
              /\ LoginReturns \/ LoginFailsWith({"OSError"})
              /\ op' = "none" => (LastOutcome'.kind = "ok" /\ LastOutcome'.body.marker = "") ]_vars

\* a primed client over a cache file whose login was answered with
\* error_explanation in a page that holds another token than the client's
C24_Witness ==
  /\ LoginRejected /\ log[1] = Event("call", "login", "")
  /\ LastOutcome.body.marker = "error_explanation"
  /\ LastOutcome.body.token = "tokB" /\ csrf_token = "tokA"
  /\ signage_ready /\ ~disable_cache /\ cache_file.state = "object"

(***************************************************************************)
(* Properties of a client with the cache disabled (Spec).                  *)
(***************************************************************************)
\* C26: a client constructed with disable_cache set starts with an empty jar,
\* whatever the cache file holds, and no step of any call changes the cache
\* file or the setting.
C26_CacheDisabled ==
  /\ []((disable_cache /\ result = Constructed) => cookie_jar = <<>>)
  /\ [][disable_cache => (cache_file' = cache_file /\ disable_cache')]_vars

\* a get_status() that logged in and returned, over a fresh cache file that
\* holds a cookie: _persist_session was called twice and the file is as it was
C26_Witness ==
  /\ disable_cache /\ GetStatusOver /\ result.kind = "returned"
  /\ Count("persist", "_persist_session", "skipped") = 2
  /\ cache_file = ObjectFile(Number(5000 - 60), List(<<CookieToDict(SessionA)>>))
  /\ cookie_jar = <<SessionB>>

(***************************************************************************)
(* Frame of _build_login_payload (SpecPayload).                            *)
(***************************************************************************)
\* the names of a dict
Names(payload) == {payload[i].name : i \in 1..Len(payload)}

\* the first field given whose name contains "remember", "" without one
RememberField == Chosen({"remember"}, "")

\* the fields the payload may differ in from the form
Credentials == {Chosen({"email", "login"}, "user[email]"), Chosen({"password"}, "user[password]")}

\* C25: in the payload _build_login_payload returns, every field of the form
\* other than the field chosen for the email, the field chosen for the password
\* and the first field whose name contains "remember" holds its form value;
\* that remember field, unless it is one of the credential fields, holds "1"
\* when its form value is empty and its form value otherwise; the payload has
\* no keys but those of the form and the credential fields; and the call
\* leaves the fields of the form as they were.
C25_PayloadFrame ==
  /\ [](PayloadOver =>
          /\ \A i \in 1..Len(form.fields) :
               LET f == form.fields[i]
               IN  /\ f.name \notin Credentials \cup {RememberField}
                        => ValueOf(f.name) = f.value
                   /\ (f.name = RememberField /\ f.name \notin Credentials)
                        => ValueOf(f.name) = IF f.value = "" THEN "1" ELSE f.value
          /\ Names(result.value) = Names(form.fields) \cup Credentials)
  /\ [][form' = form]_vars

\* a form with two remember fields, the first with a value and the second
\* without: both keep their form values
C25_Witness ==
  /\ PayloadOver
  /\ form.fields = <<Field("user[remember_me]", "0"), Field("Remember", ""),
                     Field("authenticity_token", "x1")>>
  /\ ValueOf("user[remember_me]") = "0" /\ ValueOf("Remember") = ""
  /\ ValueOf("authenticity_token") = "x1"

(***************************************************************************)
(* Properties of the watch loop (SpecWatch).                               *)
(***************************************************************************)
\* this step is the rest of the loop body after get_status()
WatchReports == main.at = "cycle" /\ op = "none" /\ main'.at # "stopped"

\* this step takes main() out of the loop
LoopLeft == main.at \in {"top", "cycle"} /\ main'.at \notin {"top", "cycle"}

\* C21: whatever get_status() raised in a cycle, the rest of the loop body
\* reports it, counts it, sleeps args.interval and is back at the top of the
\* loop; after a status it sleeps args.interval as well; the loop is left only
\* by Ctrl+C; and args.interval never changes.
C21_WatchContinues ==
  [][ /\ WatchReports =>
           /\ main'.at = "top"
           /\ main'.waited = main.interval
           /\ result.kind = "raised" =>
                /\ main'.printed = result.error
                /\ main'.error_count = main.error_count + 1
      /\ LoopLeft => main'.at = "stopped"
      /\ main'.interval = main.interval ]_vars

\* the part of C21 that holds: a KyoceraError of get_status() is reported and
\* counted, a status resets the counter, both are followed by a sleep of
\* args.interval whatever the counter is, and the loop is left only by Ctrl+C
\* or by an exception of get_status() that is no KyoceraError.
C21_CaughtFailuresContinue ==
  [][ /\ (WatchReports /\ result.kind = "returned") =>
           /\ main'.at = "top" /\ main'.waited = main.interval
           /\ main'.error_count = 0
      /\ (WatchReports /\ result.kind = "raised" /\ ExceptKyoceraError(result.error)) =>
           /\ main'.at = "top" /\ main'.waited = main.interval
           /\ main'.printed = result.error
           /\ main'.error_count = main.error_count + 1
      /\ LoopLeft =>
           \/ main'.at = "stopped"
           \/ /\ main'.at = "uncaught" /\ WatchReports
              /\ result.kind = "raised" /\ ~ExceptKyoceraError(result.error)
      /\ main'.interval = main.interval ]_vars

\* the loop left after an earlier failure was counted, by the AttributeError
\* of a realtime body that is JSON but no object
C21_UntypedEndsLoop ==
  /\ main.at = "uncaught" /\ result = Raised("AttributeError")
  /\ main.error_count = 1
  /\ LastEndpoint = "realtime" /\ LastOutcome.body.doc = "json_list"

====
